---- MODULE Spec2Model ----
(***************************************************************************)
(* A model of domain-server/src/DomainServerAcmeClient.cpp: the startup    *)
(* decision (init), expiry evaluation (checkExpiry), the certificate       *)
(* generation chain (generateCertificate and its callbacks), the self-check*)
(* join (ChallengeSelfCheck), the certificate files and the renewal timer. *)
(*                                                                         *)
(* Time.  std::chrono::system_clock counts nanoseconds in a 64-bit integer.*)
(* A time point or duration is the record [s, n] standing for the integer  *)
(* s * 10^9 + n nanoseconds with 0 <= n < 10^9, so that every operation on *)
(* it is exact integer arithmetic on numbers of at most 31 bits.          *)
(*                                                                         *)
(* A last part models libraries/shared/src/AudioRingBuffer.cpp: the write  *)
(* side of the ring (parseData) and the accessors a reader moves it with.  *)
(***************************************************************************)
EXTENDS Integers, Sequences, FiniteSets, TLC

\* ------------------------------------------------------------------ bounds

\* Most challenges (one per domain to authorize) the authority issues in an order.
MaxChallenges == 2
\* Most renewal-timer fires followed in one run.
MaxFires == 2
\* Most times the operator replaces or removes certificate files in one run.
MaxEdits == 1
\* Most calls of scheduleRenewalIn in SpecArm.
MaxArms == 2
\* Most challenges added to one AcmeHttpChallengeServer on its own.
MaxPublished == 3
\* Most samples in the ring of the AudioRingBuffer on its own.
MaxRingSamples == 4

\* ------------------------------------------------ time: 64-bit nanoseconds

NsPerSec == 1000000000
NsPerMs == 1000000
MsPerSec == 1000
\* 2^16: half the width of the int that QTimer::start(int msec) takes.
Half32 == 65536

Dur(s, n) == [s |-> s, n |-> n]
Zero == Dur(0, 0)
Hours(h) == Dur(h * 3600, 0)
Days(d) == Dur(d * 24 * 3600, 0)
Nanos(k) == Dur(0, k)

\* [s, n] for the integer s * 10^9 + n, whatever the sign and size of n.
Norm(s, n) == Dur(s + (n \div NsPerSec), n % NsPerSec)

DurAdd(a, b) == Norm(a.s + b.s, a.n + b.n)
DurSub(a, b) == Norm(a.s - b.s, a.n - b.n)
DurNeg(a) == Norm(-a.s, -a.n)
IsPos(a) == a.s > 0 \/ (a.s = 0 /\ a.n > 0)
IsNeg(a) == a.s < 0
DurLess(a, b) == IsNeg(DurSub(a, b))

\* duration * 2 (operator* of std::chrono::duration with an integer).
Times2(a) == Norm(2 * a.s, 2 * a.n)

\* duration / 3 for a duration >= 0, rounding down: with r = s mod 3,
\* (r * 10^9 + n) div 3 = r * 333333333 + (r + n) div 3.
FloorDiv3(a) == Dur(a.s \div 3, (a.s % 3) * ((NsPerSec - 1) \div 3) + ((a.s % 3) + a.n) \div 3)

\* duration / 3 (operator/ of std::chrono::duration: C++ integer division,
\* which rounds toward zero).
Div3(a) == IF IsNeg(a) THEN DurNeg(FloorDiv3(DurNeg(a))) ELSE FloorDiv3(a)

\* remainingTime(expiryTime), with system_clock::now() given.
remainingTimeMutReversed(expiry, t) == Div3(Times2(DurSub(t, expiry)))
remainingTime(expiry, t) == Div3(Times2(DurSub(expiry, t)))

\* (int) duration_cast<milliseconds>(d).count() for d >= 0: the millisecond
\* count s * 1000 + n div 10^6 is a 64-bit number; the conversion to the
\* 32-bit int of QTimer::start(int) keeps it modulo 2^32.  Computed on 16-bit
\* halves: lo and hi are the low and high half of the count modulo 2^32.
MsLow(a) == (a.s % Half32) * MsPerSec + (a.n \div NsPerMs)
MsHigh(a) == ((a.s \div Half32) * MsPerSec + (MsLow(a) \div Half32)) % Half32
Int32OfHalves(hi, lo) == IF hi < Half32 \div 2 THEN hi * Half32 + lo ELSE (hi - Half32) * Half32 + lo
MsInt32NonNeg(a) == Int32OfHalves(MsHigh(a), MsLow(a) % Half32)

\* The same for any sign: duration_cast rounds toward zero, so the count of
\* -d is minus the count of d, and -x modulo 2^32 is the negation of the int
\* (but for x = -2^31, which is its own negation).
MsInt32(a) ==
    IF ~IsNeg(a) THEN MsInt32NonNeg(a)
    ELSE LET x == MsInt32NonNeg(DurNeg(a))
         IN IF x = (0 - Half32 \div 2) * Half32 THEN x ELSE 0 - x

\* The duration of an int number of milliseconds (a QTimer interval).
OfMs(ms) == Norm(ms \div MsPerSec, (ms % MsPerSec) * NsPerMs)

\* A duration cut down to whole milliseconds (toward zero, d >= 0).
TruncMs(a) == Dur(a.s, (a.n \div NsPerMs) * NsPerMs)

\* ------------------------------------------------------------------- state

VARIABLES
    now,               \* system_clock::now()
    fs,                \* the three files: path -> [exists, data]
    timers,            \* pending timeouts of renewalTimer
    scheduledFor,      \* the instant last logged as "Renewal scheduled for:"
    pc,                \* where the client is: Boot, Idle, or the request in flight
    certPaths,         \* the std::array captured by the callbacks of a cycle
    challengeHandler,  \* the unique_ptr member: [alive, challenges]
    selfCheckUrls,     \* the vector member
    orderChallenges,   \* how many challenges the authority issues in the order
    selfCheck,         \* the ChallengeSelfCheck object: [refs, pending, failed, urls]
    continuationRuns,  \* times the self-check callback ran in this cycle
    steps,             \* the steps taken in this cycle, in order
    errors,            \* qCCritical lines of the failure paths, counted
    lastInit,          \* what the last init() decided and logged
    lastCheck,         \* what the last checkExpiry() could open, read and did
    fires,             \* timer fires so far
    edits,             \* operator edits so far
    armLog,            \* SpecArm: the durations given to scheduleRenewalIn
    fireLog,           \* SpecArm: the instants at which the timer fired
    httpResponse,      \* what the HTTP request being served was answered
    ring               \* SpecRing: one AudioRingBuffer, pointers as offsets from buffer

vars == <<now, fs, timers, scheduledFor, pc, certPaths, challengeHandler,
          selfCheckUrls, orderChallenges, selfCheck, continuationRuns, steps,
          errors, lastInit, lastCheck, fires, edits, armLog, fireLog, httpResponse, ring>>

\* ------------------------------------------------------------------- files

ChainPath == "chain"
KeyPath == "key"
AccountKeyPath == "account"

\* File contents.  A certificate chain carries its expiry (getExpiry parses it
\* from the chain); id tells one certificate or key from another; whole is
\* FALSE for a proper prefix of the content (a short write).
Empty == [tag |-> "empty", id |-> 0, expiry |-> Zero, whole |-> TRUE]
ChainPem(id, expiry) == [tag |-> "chain", id |-> id, expiry |-> expiry, whole |-> TRUE]
KeyPem(id) == [tag |-> "key", id |-> id, expiry |-> Zero, whole |-> TRUE]
AccountPem(id) == [tag |-> "account", id |-> id, expiry |-> Zero, whole |-> TRUE]
Prefix(data) == [data EXCEPT !.whole = FALSE]
IsEmpty(data) == data.tag = "empty"

Absent == [exists |-> FALSE, data |-> Empty]
Holding(data) == [exists |-> TRUE, data |-> data]

\* getCertFiles(settings): { certDir/certFilename, certDir/certKeyFilename }.
getCertFiles == <<ChainPath, KeyPath>>

\* readAll(path): the content, or the empty string when the file cannot be
\* opened.
readAll(f, path, openOk) == IF f[path].exists /\ openOk THEN f[path].data ELSE Empty

\* readCertificate(files): { readAll(files.front()), readAll(files.back()) }.
readCertificate(f, files, io) ==
    [fullchain |-> readAll(f, files[1], io.chainOpen),
     privkey |-> readAll(f, files[Len(files)], io.keyOpen)]

\* writeAll(data, path): open(WriteOnly) creates or truncates the file; the
\* result is whether open worked and write took every byte.  wr is what the
\* write took: "full", "partial" (a short write) or "none".
WrittenData(data, wr) ==
    IF wr = "full" THEN data ELSE IF wr = "partial" THEN Prefix(data) ELSE Empty
writeAllFs(f, data, path, openOk, wr) ==
    IF openOk THEN [f EXCEPT ![path] = Holding(WrittenData(data, wr))] ELSE f
writeAllOk(openOk, wr) == openOk /\ wr = "full"

\* writeCertificate(cert, files): writeAll(fullchain, front) && writeAll(privkey, back).
writeCertificateFs(f, cert, files, io) ==
    LET f1 == writeAllFs(f, cert.fullchain, files[1], io.chainOpen, io.chainWrite)
    IN IF writeAllOk(io.chainOpen, io.chainWrite)
       THEN writeAllFs(f1, cert.privkey, files[Len(files)], io.keyOpen, io.keyWrite)
       ELSE f1
writeCertificateOk(io) ==
    writeAllOk(io.chainOpen, io.chainWrite) /\ writeAllOk(io.keyOpen, io.keyWrite)

\* What the file system may answer to one handler.
WriteOutcomes == {"full", "partial", "none"}
ReadOutcomes ==
    [chainOpen : BOOLEAN, keyOpen : BOOLEAN, accountCreate : BOOLEAN, accountOpen : BOOLEAN]
FileOutcomes ==
    {[open |-> FALSE, write |-> "none"]} \cup {[open |-> TRUE, write |-> w] : w \in WriteOutcomes}
StoreOutcomes ==
    {[chainOpen |-> c.open, chainWrite |-> c.write, keyOpen |-> k.open, keyWrite |-> k.write] :
        c \in FileOutcomes, k \in FileOutcomes}

\* ------------------------------------------------------------------- timer

\* renewalTimer.stop()
TimerStop(ts) == {}

\* renewalTimer.start(int msec): QObject::startTimer refuses an interval < 0
\* ("Timers cannot have negative intervals") and nothing is left pending.
TimerStart(ts, msec, t) ==
    IF msec < 0 THEN {} ELSE {[interval |-> msec, armedAt |-> t]}

\* scheduleRenewalIn(duration): the pending timeouts afterwards.
scheduleRenewalIn(ts, duration, t) == TimerStart(TimerStop(ts), MsInt32(duration), t)

\* ... and the instant it logs.
RenewalLogged(duration, t) == [set |-> TRUE, at |-> DurAdd(t, duration)]
NotLogged == [set |-> FALSE, at |-> Zero]

\* When a pending timeout is due.
FireInstant(tm) == DurAdd(tm.armedAt, OfMs(tm.interval))

\* renewalTimer.setSingleShot(true): a timeout that fired is not pending again.
TimerAfterFireMutPeriodic(ts, tm) == (ts \ {tm}) \cup {[tm EXCEPT !.armedAt = FireInstant(tm)]}
TimerAfterFire(ts, tm) == ts \ {tm}

\* ------------------------------------------------- the steps of one cycle

NoSelfCheck == [refs |-> 0, pending |-> {}, failed |-> {}, urls |-> << >>]
NoHandler == [alive |-> FALSE, challenges |-> << >>]
NoInit == [branch |-> "none", missing |-> "", other |-> ""]
NoCheck == [read |-> FALSE, left |-> Zero, remaining |-> Zero,
            chainOpen |-> FALSE, keyOpen |-> FALSE]

\* The failure paths: a qCCritical line, and the handler returns.
Failed(st) == Append(st, "error")

\* DomainServerAcmeClient::generateCertificate(certPaths), called by init or
\* checkExpiry with the timers as ts and the clock at t: the account key file
\* is created when it does not exist and then read, and acme_lw::init is
\* started with the order callback.
AccountFsAfterCreateMutAlways(f, cycle, io) ==
    IF io.accountCreate
    THEN [f EXCEPT ![AccountKeyPath] = Holding(AccountPem(cycle))]
    ELSE f
AccountFsAfterCreate(f, cycle, io) ==
    IF ~f[AccountKeyPath].exists /\ io.accountCreate
    THEN [f EXCEPT ![AccountKeyPath] = Holding(AccountPem(cycle))]
    ELSE f
AccountKeyReadyMutNoReturn(f, io) == TRUE
AccountKeyReady(f, io) ==
    /\ f[AccountKeyPath].exists \/ io.accountCreate
    /\ io.accountOpen
generateCertificate(paths, ts, t, io, st) ==
    /\ fs' = AccountFsAfterCreate(fs, fires' + 1, io)
    /\ IF AccountKeyReady(fs, io)
       THEN /\ pc' = "AuthorityInit"
            /\ steps' = st \o <<"generate", "accountKey", "init">>
            /\ errors' = errors
            /\ certPaths' = paths
       ELSE /\ pc' = "Idle"
            /\ steps' = Failed(Append(st, "generate"))
            /\ errors' = errors + 1
            /\ certPaths' = certPaths
    /\ timers' = ts
    /\ UNCHANGED <<scheduledFor, challengeHandler, selfCheckUrls, orderChallenges,
                   selfCheck, continuationRuns>>

\* checkExpiry's test of what it read: cert.fullchain.empty() || cert.privkey.empty()
CertUnreadableMutChainOnly(cert) == IsEmpty(cert.fullchain)
CertUnreadable(cert) == IsEmpty(cert.fullchain) \/ IsEmpty(cert.privkey)

\* checkExpiry's test of the remaining time: remaining > 0s.
RenewLaterMutNonZero(remaining) == remaining # Zero
RenewLater(remaining) == IsPos(remaining)

\* DomainServerAcmeClient::checkExpiry(certPaths)
checkExpiry(paths, ts, t, io) ==
    LET cert == readCertificate(fs, paths, io)
        remaining == remainingTime(cert.fullchain.expiry, t)
    IN IF CertUnreadable(cert)
       THEN /\ lastCheck' = [NoCheck EXCEPT !.chainOpen = io.chainOpen,
                                            !.keyOpen = io.keyOpen]
            /\ pc' = "Idle"
            /\ steps' = Failed(<<"checkExpiry">>)
            /\ errors' = errors + 1
            /\ timers' = ts
            /\ UNCHANGED <<fs, scheduledFor, certPaths, challengeHandler, selfCheckUrls,
                           orderChallenges, selfCheck, continuationRuns>>
       ELSE /\ lastCheck' = [read |-> TRUE, left |-> DurSub(cert.fullchain.expiry, t),
                             remaining |-> remaining,
                             chainOpen |-> io.chainOpen, keyOpen |-> io.keyOpen]
            /\ IF RenewLater(remaining)
               THEN /\ timers' = scheduleRenewalIn(ts, remaining, t)
                    /\ scheduledFor' = RenewalLogged(remaining, t)
                    /\ pc' = "Idle"
                    /\ steps' = <<"checkExpiry", "arm">>
                    /\ UNCHANGED <<fs, errors, certPaths, challengeHandler, selfCheckUrls,
                                   orderChallenges, selfCheck, continuationRuns>>
               ELSE generateCertificate(paths, ts, t, io, <<"checkExpiry">>)

\* std::stable_partition(certFiles, QFile::exists): the files that exist first,
\* each group in its order; point is the position of the first that does not
\* exist (Len + 1: end()).
StablePartition(files, f) ==
    LET there == SelectSeq(files, LAMBDA x : f[x].exists)
        notThere == SelectSeq(files, LAMBDA x : ~f[x].exists)
    IN [files |-> there \o notThere, point |-> Len(there) + 1]

\* notExisitng == certFiles.end(): all files exist.
AllExist(part) == part.point = Len(part.files) + 1

\* notExisitng == certFiles.begin(): none of the files exist.
NoneExistMutAnyMissing(part) == part.point # Len(part.files) + 1
NoneExist(part) == part.point = 1

\* What init logs when one file exists and the other does not.
InconsistentReportMutSwapped(part) ==
    [branch |-> "inconsistent", missing |-> part.files[1], other |-> part.files[part.point]]
InconsistentReport(part) ==
    [branch |-> "inconsistent", missing |-> part.files[part.point], other |-> part.files[1]]

\* DomainServerAcmeClient::init()
init(ts, t, io) ==
    LET part == StablePartition(getCertFiles, fs)
    IN IF AllExist(part)
       THEN /\ lastInit' = [NoInit EXCEPT !.branch = "checkExpiry"]
            /\ checkExpiry(part.files, ts, t, io)
       ELSE IF NoneExist(part)
       THEN /\ lastInit' = [NoInit EXCEPT !.branch = "generateCertificate"]
            /\ lastCheck' = lastCheck
            /\ generateCertificate(part.files, ts, t, io, << >>)
       ELSE /\ lastInit' = InconsistentReport(part)
            /\ pc' = "Idle"
            /\ steps' = << >>
            /\ errors' = errors + 1
            /\ timers' = ts
            /\ UNCHANGED <<fs, scheduledFor, certPaths, challengeHandler, selfCheckUrls,
                           orderChallenges, selfCheck, continuationRuns, lastCheck>>

\* ChallengeSelfCheck: one object behind a shared_ptr.  refs counts the owners;
\* the destructor, which runs the callback, fires when the last owner lets go.
DestructorFiresMutOnEachRelease(refsAfter) == refsAfter >= 0
DestructorFires(refsAfter) == refsAfter = 0

\* challengeSelfCheck(callback, urls)->start(): the temporary shared_ptr owns
\* the object while start() hands one more owner to each waitForGet; the
\* temporary then lets go.
SelfCheckStartedMutKeepsTemporary(urls) ==
    [refs |-> 1 + Len(urls), pending |-> 1..Len(urls), failed |-> {}, urls |-> urls]
SelfCheckStarted(urls) ==
    [refs |-> (1 + Len(urls)) - 1, pending |-> 1..Len(urls), failed |-> {}, urls |-> urls]

\* One waitForGet resolves: operator()(Response) or operator()(AcmeException)
\* runs (the latter only logs a warning) and the owner lets go; the last one
\* to let go destroys the object, its urls with it.
SelfCheckResolve(sc, i, ok) ==
    [refs |-> sc.refs - 1, pending |-> sc.pending \ {i},
     failed |-> IF ok THEN sc.failed ELSE sc.failed \cup {i},
     urls |-> IF DestructorFires(sc.refs - 1) THEN << >> ELSE sc.urls]

\* The callback of the self-check: retrieveCertificate(certificateCallback(..)).
\* Given the pc and steps the handler would otherwise leave, and the times the
\* callback of this object ran before.
AfterRelease(sc, pcElse, st, runs) ==
    IF DestructorFires(sc.refs)
    THEN /\ pc' = "Retrieving"
         /\ steps' = Append(st, "retrieve")
         /\ continuationRuns' = runs + 1
    ELSE /\ pc' = pcElse
         /\ steps' = st
         /\ continuationRuns' = runs

\* The locations (tokens) the authority may name in a challenge.
Locations == {"tokenA", "tokenB"}
KeyAuth(location, cycle) == <<location, cycle>>
\* "http://"s + domain + location
SelfCheckUrlMutNoDomain(domain, location) == <<"http://", location>>
SelfCheckUrl(domain, location) == <<"http://", domain, location>>

\* The certificates the authority may sign: how long each is valid.
Validities == {Days(90), Days(30)}

\* What the first certificate on disk may have left when the process starts.
InitialValidities ==
    {Hours(-1), Zero, Nanos(1), Nanos(2), Days(30), Days(60), Days(90)}

\* ---------------------------------------------------------- AudioRingBuffer

\* The pointers into the ring are offsets from buffer, in samples; NULL is no
\* offset.
NULL == -1

\* short: the 16 bits a pointer difference is narrowed to.
Int16Half == 32768
Int16Mod == 65536
ToShort(x) == ((x + Int16Half) % Int16Mod) - Int16Half

AGENT_LOOPBACK_MODIFIER == 307

\* What the last memcpy of parseData wrote: samples from..to-1.
NoCopy == [from |-> 0, to |-> 0]
Samples(copy) == copy.from..(copy.to - 1)

\* No AudioRingBuffer is made.
NoRing == [alive |-> FALSE]

\* AudioRingBuffer::AudioRingBuffer(ringSamples, bufferSamples).  The
\* constructor leaves bearing and _shouldLoopbackForAgent as they come.
\* unread, copied, overwrote and wasReset record, for the properties, the
\* samples written and not read, the last memcpy, whether it wrote over
\* unread samples, and whether parseData reset the pointers before it.
AudioRingBuffer(ringSamples, bufferSamples, bearing, loopback) ==
    [alive |-> TRUE,
     ringBufferLengthSamples |-> ringSamples,
     bufferLengthSamples |-> bufferSamples,
     started |-> FALSE,
     endOfLastWrite |-> NULL,
     nextOutput |-> 0,
     bearing |-> bearing,
     shouldLoopbackForAgent |-> loopback,
     unread |-> {},
     copied |-> NoCopy,
     overwrote |-> FALSE,
     wasReset |-> FALSE]

\* AudioRingBuffer::diffLastWriteNextOutput()
diffLastWriteNextOutput(r) ==
    IF r.endOfLastWrite = NULL
    THEN 0
    ELSE LET sampleDifference == ToShort(r.endOfLastWrite - r.nextOutput)
         IN IF sampleDifference < 0
            THEN ToShort(sampleDifference + r.ringBufferLengthSamples)
            ELSE sampleDifference

\* parseData, lines 103-132: a packet longer than the samples carries a
\* header; a bearing outside [-180, 180] asks for loopback and is corrected.
\* (position and attenuationRatio are copied from the header as they are.)
ParseHeader(r, hasHeader, bearing) ==
    IF ~hasHeader THEN r
    ELSE IF bearing > 180 \/ bearing < -180
    THEN [r EXCEPT !.shouldLoopbackForAgent = TRUE,
                   !.bearing = IF bearing > 0 THEN bearing - AGENT_LOOPBACK_MODIFIER
                               ELSE bearing + AGENT_LOOPBACK_MODIFIER]
    ELSE [r EXCEPT !.shouldLoopbackForAgent = FALSE, !.bearing = bearing]

\* parseData, lines 134-140: whether the pointers are reset before the copy.
MustReset(r) ==
    /\ r.endOfLastWrite # NULL
    /\ diffLastWriteNextOutput(r) > r.ringBufferLengthSamples - r.bufferLengthSamples

\* AudioRingBuffer::parseData(sourceBuffer, numBytes)
parseData(r, hasHeader, bearing) ==
    LET h == ParseHeader(r, hasHeader, bearing)
        reset == MustReset(r)
        target == IF r.endOfLastWrite = NULL \/ reset THEN 0 ELSE r.endOfLastWrite
        copy == [from |-> target, to |-> target + r.bufferLengthSamples]
        end == target + r.bufferLengthSamples
    IN [h EXCEPT !.endOfLastWrite = IF end >= r.ringBufferLengthSamples THEN 0 ELSE end,
                 !.nextOutput = IF reset THEN 0 ELSE r.nextOutput,
                 !.started = IF reset THEN FALSE ELSE r.started,
                 !.copied = copy,
                 !.wasReset = reset,
                 !.overwrote = Samples(copy) \cap r.unread # {},
                 !.unread = (IF reset THEN Samples(copy) ELSE r.unread \cup Samples(copy))
                              \cap (0..(r.ringBufferLengthSamples - 1))]

\* The memcpy of parseData went past buffer + ringBufferLengthSamples.
PastTheRing(r) == r.copied.to > r.ringBufferLengthSamples

\* The samples a reader has consumed when it moves nextOutput forward, around
\* the end of the ring, to newPointer.
Consumed(r, newPointer) ==
    IF newPointer >= r.nextOutput
    THEN r.nextOutput..(newPointer - 1)
    ELSE (r.nextOutput..(r.ringBufferLengthSamples - 1)) \cup (0..(newPointer - 1))

\* AudioRingBuffer::setNextOutput(newPointer)
setNextOutput(r, newPointer) ==
    [r EXCEPT !.nextOutput = newPointer, !.unread = @ \ Consumed(r, newPointer)]

\* AudioRingBuffer::setStarted(status)
setStarted(r, status) == [r EXCEPT !.started = status]

\* ----------------------------------------------------------------- actions

\* The constructor: the timer is made single-shot and connected, init() runs.
Construct ==
    /\ pc = "Boot"
    /\ UNCHANGED <<now, fires, edits, armLog, fireLog, httpResponse, ring>>
    /\ \E io \in ReadOutcomes : init(timers, now, io)

\* renewalTimer times out: the connected lambda runs init().
TimerFire ==
    /\ fires < MaxFires
    /\ \E tm \in timers :
        /\ now' = IF DurLess(now, FireInstant(tm)) THEN FireInstant(tm) ELSE now
        /\ fires' = fires + 1
        /\ UNCHANGED <<edits, armLog, fireLog, httpResponse, ring>>
        /\ \E io \in ReadOutcomes : init(TimerAfterFire(timers, tm), now', io)

\* acme_lw::init answers: the first continuation starts createAccount, or the
\* error goes to the order callback.
AuthorityInitDone ==
    /\ pc = "AuthorityInit"
    /\ \E ok \in BOOLEAN :
        IF ok
        THEN /\ pc' = "CreatingAccount"
             /\ steps' = Append(steps, "createAccount")
             /\ errors' = errors
        ELSE /\ pc' = "Idle"
             /\ steps' = Failed(steps)
             /\ errors' = errors + 1
    /\ UNCHANGED <<now, fs, timers, scheduledFor, certPaths, challengeHandler,
                   selfCheckUrls, orderChallenges, selfCheck, continuationRuns,
                   lastInit, lastCheck, fires, edits, armLog, fireLog, httpResponse, ring>>

\* acme_lw::createAccount answers: the second continuation makes the challenge
\* server and starts orderCertificate, or the error goes to the order callback.
AccountCreated ==
    /\ pc = "CreatingAccount"
    /\ \E ok \in BOOLEAN :
        IF ok
        THEN /\ pc' = "Ordering"
             /\ steps' = Append(steps, "order")
             /\ errors' = errors
             /\ challengeHandler' = [alive |-> TRUE, challenges |-> << >>]
             /\ \E k \in 0..MaxChallenges : orderChallenges' = k
        ELSE /\ pc' = "Idle"
             /\ steps' = Failed(steps)
             /\ errors' = errors + 1
             /\ UNCHANGED <<challengeHandler, orderChallenges>>
    /\ UNCHANGED <<now, fs, timers, scheduledFor, certPaths, selfCheckUrls, selfCheck,
                   continuationRuns, lastInit, lastCheck, fires, edits, armLog, fireLog, httpResponse, ring>>

\* QUrl(QString) and QUrl::toString(), for the path-only strings that are
\* challenge locations and request paths: the string becomes the path.
QUrlFromString(str) == [path |-> str]
QUrlToString(url) == url.path

\* AcmeHttpChallengeServer::addChallenge(domain, location, content)
addChallenge(h, location, content) ==
    [h EXCEPT !.challenges =
        Append(@, [url |-> QUrlFromString(location), content |-> content])]

\* std::find_if(challenges.begin(), challenges.end(), x.url == url): the
\* position of the first challenge with that URL, 0 for end().
FindIfMutAlwaysTrue(challenges, url) == IF challenges = << >> THEN 0 ELSE 1
FindIf(challenges, url) ==
    LET found == {i \in DOMAIN challenges : challenges[i].url = url}
    IN IF found = {} THEN 0 ELSE CHOOSE i \in found : \A j \in found : i <= j

\* The text of the 404 answer, piece by piece: the URL asked for, then the
\* URL of every challenge, each followed by a newline.
RECURSIVE ExpectedUrls(_)
ExpectedUrls(challenges) ==
    IF challenges = << >> THEN << >>
    ELSE <<QUrlToString(Head(challenges).url), "\n">> \o ExpectedUrls(Tail(challenges))
NotFoundText(challenges, url) ==
    <<"Resource not found. Url is ", QUrlToString(url), " but expected any of\n">>
        \o ExpectedUrls(challenges)

\* AcmeHttpChallengeServer::handleHTTPRequest(connection, url): what is
\* handed to connection->respond.  The 404 answer names no content type.
NoResponse == [url |-> "", status |-> 0, body |-> << >>, contentType |-> ""]
handleHTTPRequest(h, url) ==
    LET challenge == FindIf(h.challenges, url)
    IN IF challenge # 0
       THEN [url |-> QUrlToString(url), status |-> 200,
             body |-> h.challenges[challenge].content,
             contentType |-> "application/octet-stream"]
       ELSE [url |-> QUrlToString(url), status |-> 404,
             body |-> NotFoundText(h.challenges, url), contentType |-> ""]

\* orderCertificate hands over one challenge: the challenge callback publishes
\* it and records its URL.
GotChallenge ==
    /\ pc = "Ordering"
    /\ Len(challengeHandler.challenges) < orderChallenges
    /\ \E location \in Locations :
        LET domain == Len(challengeHandler.challenges) + 1
        IN /\ challengeHandler' =
                 addChallenge(challengeHandler, location, KeyAuth(location, fires + 1))
           /\ selfCheckUrls' = Append(selfCheckUrls, SelfCheckUrl(domain, location))
    /\ steps' = Append(steps, "challenge")
    /\ UNCHANGED <<now, fs, timers, scheduledFor, pc, certPaths, orderChallenges, selfCheck,
                   continuationRuns, errors, lastInit, lastCheck, fires, edits, armLog,
                   fireLog, httpResponse, ring>>

\* acme_lw::orderCertificate calls the order callback when it has handed every
\* challenge of the order to the challenge callback.
OrderComplete == Len(challengeHandler.challenges) = orderChallenges

\* orderCertificate succeeds, every challenge handed over: OrderCallback starts
\* the self-check on the collected URLs and clears the member.
OrderSucceeded ==
    /\ pc = "Ordering"
    /\ OrderComplete
    /\ selfCheck' = SelfCheckStarted(selfCheckUrls)
    /\ selfCheckUrls' = << >>
    /\ AfterRelease(selfCheck', "SelfChecking", Append(steps, "selfCheck"), 0)
    /\ UNCHANGED <<now, fs, timers, scheduledFor, certPaths, challengeHandler,
                   orderChallenges, errors, lastInit, lastCheck, fires, edits, armLog,
                   fireLog, httpResponse, ring>>

\* orderCertificate fails, at any point of the order: OrderCallback logs.
OrderFailed ==
    /\ pc = "Ordering"
    /\ pc' = "Idle"
    /\ steps' = Failed(steps)
    /\ errors' = errors + 1
    /\ UNCHANGED <<now, fs, timers, scheduledFor, certPaths, challengeHandler, selfCheckUrls,
                   orderChallenges, selfCheck, continuationRuns, lastInit, lastCheck, fires,
                   edits, armLog, fireLog, httpResponse, ring>>

\* One self-check GET resolves, well or not.
SelfCheckResolved ==
    /\ \E i \in selfCheck.pending, ok \in BOOLEAN :
        /\ selfCheck' = SelfCheckResolve(selfCheck, i, ok)
        /\ AfterRelease(selfCheck', pc, steps, continuationRuns)
    /\ UNCHANGED <<now, fs, timers, scheduledFor, certPaths, challengeHandler, selfCheckUrls,
                   orderChallenges, errors, lastInit, lastCheck, fires, edits, armLog,
                   fireLog, httpResponse, ring>>

\* CertificateCallback, on both answers: challengeHandler = nullptr.
HandlerAfterRetrievalMutKept(h) == h
HandlerAfterRetrieval(h) == NoHandler

\* retrieveCertificate answers with a certificate: CertificateCallback drops
\* the challenge handler and writes the files; when that worked, the renewal
\* continuation arms the timer from the new expiry.
CertificateRetrieved ==
    /\ pc = "Retrieving"
    /\ \E validity \in Validities, io \in StoreOutcomes :
        LET cert == [fullchain |-> ChainPem(fires + 1, DurAdd(now, validity)),
                     privkey |-> KeyPem(fires + 1)]
            remaining == remainingTime(cert.fullchain.expiry, now)
        IN /\ fs' = writeCertificateFs(fs, cert, certPaths, io)
           /\ IF writeCertificateOk(io)
              THEN /\ timers' = scheduleRenewalIn(timers, remaining, now)
                   /\ scheduledFor' = RenewalLogged(remaining, now)
                   /\ steps' = steps \o <<"write", "arm">>
                   /\ errors' = errors
              ELSE /\ steps' = Failed(Append(steps, "write"))
                   /\ errors' = errors + 1
                   /\ UNCHANGED <<timers, scheduledFor>>
    /\ challengeHandler' = HandlerAfterRetrieval(challengeHandler)
    /\ pc' = "Idle"
    /\ UNCHANGED <<now, certPaths, selfCheckUrls, orderChallenges, selfCheck,
                   continuationRuns, lastInit, lastCheck, fires, edits, armLog, fireLog, httpResponse, ring>>

\* retrieveCertificate answers with an error: CertificateCallback drops the
\* challenge handler and logs.
RetrievalFailed ==
    /\ pc = "Retrieving"
    /\ challengeHandler' = HandlerAfterRetrieval(challengeHandler)
    /\ pc' = "Idle"
    /\ steps' = Failed(steps)
    /\ errors' = errors + 1
    /\ UNCHANGED <<now, fs, timers, scheduledFor, certPaths, selfCheckUrls, orderChallenges,
                   selfCheck, continuationRuns, lastInit, lastCheck, fires, edits, armLog,
                   fireLog, httpResponse, ring>>

\* The operator, while the client waits for the renewal: replaces both files
\* by a certificate of their own, or removes files.
OperatorEdit ==
    /\ pc = "Idle"
    /\ timers # {}
    /\ edits < MaxEdits
    /\ edits' = edits + 1
    /\ \/ \E left \in {Days(90), Hours(-1)} :
            fs' = [fs EXCEPT ![ChainPath] = Holding(ChainPem(100 + edits, DurAdd(now, left))),
                             ![KeyPath] = Holding(KeyPem(100 + edits))]
       \/ \E gone \in (SUBSET {ChainPath, KeyPath}) \ {{}} :
            fs' = [p \in DOMAIN fs |-> IF p \in gone THEN Absent ELSE fs[p]]
    /\ UNCHANGED <<now, timers, scheduledFor, pc, certPaths, challengeHandler, selfCheckUrls,
                   orderChallenges, selfCheck, continuationRuns, steps, errors, lastInit,
                   lastCheck, fires, armLog, fireLog, httpResponse, ring>>

\* ------------------------------------------------------- the specification

\* The clock when the process starts.
StartTime == Days(1000)

InitialCertFiles ==
    {[c \in {ChainPath, KeyPath} |-> Absent]}
    \cup {[c \in {ChainPath, KeyPath} |-> IF c = p THEN Absent
                                           ELSE IF c = ChainPath
                                           THEN Holding(ChainPem(0, DurAdd(StartTime, Days(90))))
                                           ELSE Holding(KeyPem(0))]
          : p \in {ChainPath, KeyPath}}
    \cup {[c \in {ChainPath, KeyPath} |-> IF c = ChainPath
                                           THEN Holding(ChainPem(0, DurAdd(StartTime, left)))
                                           ELSE Holding(KeyPem(0))]
          : left \in InitialValidities}
    \cup {[c \in {ChainPath, KeyPath} |-> IF c = p THEN Holding(Empty)
                                           ELSE IF c = ChainPath
                                           THEN Holding(ChainPem(0, DurAdd(StartTime, Days(90))))
                                           ELSE Holding(KeyPem(0))]
          : p \in {ChainPath, KeyPath}}

Init ==
    /\ now = StartTime
    /\ \E certs \in InitialCertFiles, account \in {Absent, Holding(AccountPem(0))} :
        fs = [p \in {ChainPath, KeyPath, AccountKeyPath} |->
                 IF p = AccountKeyPath THEN account ELSE certs[p]]
    /\ timers = {}
    /\ scheduledFor = NotLogged
    /\ pc = "Boot"
    /\ certPaths = getCertFiles
    /\ challengeHandler = NoHandler
    /\ selfCheckUrls = << >>
    /\ orderChallenges = 0
    /\ selfCheck = NoSelfCheck
    /\ continuationRuns = 0
    /\ steps = << >>
    /\ errors = 0
    /\ lastInit = NoInit
    /\ lastCheck = NoCheck
    /\ fires = 0
    /\ edits = 0
    /\ armLog = << >>
    /\ fireLog = << >>
    /\ httpResponse = NoResponse
    /\ ring = NoRing

Next ==
    \/ Construct
    \/ TimerFire
    \/ AuthorityInitDone
    \/ AccountCreated
    \/ GotChallenge
    \/ OrderSucceeded
    \/ OrderFailed
    \/ SelfCheckResolved
    \/ CertificateRetrieved
    \/ RetrievalFailed
    \/ OperatorEdit

Spec == Init /\ [][Next]_vars

\* ------------------------------------------ scheduleRenewalIn on its own

\* A second specification: scheduleRenewalIn called with any durations, any
\* number of times up to MaxArms, between the timeouts of the timer.

\* The durations handed to scheduleRenewalIn.
ArmDurations == {Hours(1), Days(1), Days(20), Days(40), Days(60)}

InitArm ==
    /\ now = StartTime
    /\ fs = [p \in {ChainPath, KeyPath, AccountKeyPath} |-> Absent]
    /\ timers = {}
    /\ scheduledFor = NotLogged
    /\ pc = "Harness"
    /\ certPaths = getCertFiles
    /\ challengeHandler = NoHandler
    /\ selfCheckUrls = << >>
    /\ orderChallenges = 0
    /\ selfCheck = NoSelfCheck
    /\ continuationRuns = 0
    /\ steps = << >>
    /\ errors = 0
    /\ lastInit = NoInit
    /\ lastCheck = NoCheck
    /\ fires = 0
    /\ edits = 0
    /\ armLog = << >>
    /\ fireLog = << >>
    /\ httpResponse = NoResponse
    /\ ring = NoRing

\* scheduleRenewalIn(d) is called.
HarnessArm ==
    /\ pc = "Harness"
    /\ Len(armLog) < MaxArms
    /\ \E d \in ArmDurations :
        /\ timers' = scheduleRenewalIn(timers, d, now)
        /\ scheduledFor' = RenewalLogged(d, now)
        /\ armLog' = Append(armLog, [d |-> d, at |-> now])
    /\ UNCHANGED <<now, fs, pc, certPaths, challengeHandler, selfCheckUrls, orderChallenges,
                   selfCheck, continuationRuns, steps, errors, lastInit, lastCheck, fires,
                   edits, fireLog, httpResponse, ring>>

\* A pending timeout comes due.
HarnessFire ==
    /\ pc = "Harness"
    /\ \E tm \in timers :
        /\ now' = IF DurLess(now, FireInstant(tm)) THEN FireInstant(tm) ELSE now
        /\ timers' = TimerAfterFire(timers, tm)
        /\ fireLog' = Append(fireLog, [at |-> now', arms |-> Len(armLog)])
    /\ UNCHANGED <<fs, scheduledFor, pc, certPaths, challengeHandler, selfCheckUrls,
                   orderChallenges, selfCheck, continuationRuns, steps, errors, lastInit,
                   lastCheck, fires, edits, armLog, httpResponse, ring>>

\* Time passes between two calls, short of any pending timeout.
HarnessWait ==
    /\ pc = "Harness"
    /\ now = StartTime
    /\ now' = DurAdd(now, Dur(60, 500000))
    /\ \A tm \in timers : DurLess(now', FireInstant(tm))
    /\ UNCHANGED <<fs, timers, scheduledFor, pc, certPaths, challengeHandler, selfCheckUrls,
                   orderChallenges, selfCheck, continuationRuns, steps, errors, lastInit,
                   lastCheck, fires, edits, armLog, fireLog, httpResponse, ring>>

NextArm == HarnessArm \/ HarnessFire \/ HarnessWait

SpecArm == InitArm /\ [][NextArm]_vars

\* ------------------------------------ AcmeHttpChallengeServer on its own

\* A third specification: one AcmeHttpChallengeServer, to which up to
\* MaxPublished challenges are added, in any order, and which is asked for
\* any path between the additions.

\* The paths asked for: the locations, and one that is never published.
RequestPaths == Locations \cup {"tokenC"}

InitHttp ==
    /\ now = StartTime
    /\ fs = [p \in {ChainPath, KeyPath, AccountKeyPath} |-> Absent]
    /\ timers = {}
    /\ scheduledFor = NotLogged
    /\ pc = "Http"
    /\ certPaths = getCertFiles
    /\ challengeHandler = [alive |-> TRUE, challenges |-> << >>]
    /\ selfCheckUrls = << >>
    /\ orderChallenges = 0
    /\ selfCheck = NoSelfCheck
    /\ continuationRuns = 0
    /\ steps = << >>
    /\ errors = 0
    /\ lastInit = NoInit
    /\ lastCheck = NoCheck
    /\ fires = 0
    /\ edits = 0
    /\ armLog = << >>
    /\ fireLog = << >>
    /\ httpResponse = NoResponse
    /\ ring = NoRing

\* addChallenge is called; no request is being served.
HttpAddChallenge ==
    /\ pc = "Http"
    /\ Len(challengeHandler.challenges) < MaxPublished
    /\ \E location \in Locations, cycle \in 1..2 :
        challengeHandler' = addChallenge(challengeHandler, location, KeyAuth(location, cycle))
    /\ httpResponse' = NoResponse
    /\ UNCHANGED <<now, fs, timers, scheduledFor, pc, certPaths, selfCheckUrls,
                   orderChallenges, selfCheck, continuationRuns, steps, errors, lastInit,
                   lastCheck, fires, edits, armLog, fireLog, ring>>

\* A request comes in and is answered.
HttpRequest ==
    /\ pc = "Http"
    /\ \E path \in RequestPaths :
        httpResponse' = handleHTTPRequest(challengeHandler, QUrlFromString(path))
    /\ UNCHANGED <<now, fs, timers, scheduledFor, pc, certPaths, challengeHandler,
                   selfCheckUrls, orderChallenges, selfCheck, continuationRuns, steps, errors,
                   lastInit, lastCheck, fires, edits, armLog, fireLog, ring>>

NextHttp == HttpAddChallenge \/ HttpRequest

SpecHttp == InitHttp /\ [][NextHttp]_vars

\* -------------------------------------------- AudioRingBuffer on its own

\* A fourth specification: one AudioRingBuffer of any shape up to
\* MaxRingSamples, into which packets are parsed while a reader moves
\* nextOutput inside the ring and sets started.

\* The bearings a packet header may carry, and what an unset bearing may be.
PacketBearings == {0, 200, -200}
UnsetBearings == {0, 107}

InitRing ==
    /\ now = StartTime
    /\ fs = [p \in {ChainPath, KeyPath, AccountKeyPath} |-> Absent]
    /\ timers = {}
    /\ scheduledFor = NotLogged
    /\ pc = "Ring"
    /\ certPaths = getCertFiles
    /\ challengeHandler = NoHandler
    /\ selfCheckUrls = << >>
    /\ orderChallenges = 0
    /\ selfCheck = NoSelfCheck
    /\ continuationRuns = 0
    /\ steps = << >>
    /\ errors = 0
    /\ lastInit = NoInit
    /\ lastCheck = NoCheck
    /\ fires = 0
    /\ edits = 0
    /\ armLog = << >>
    /\ fireLog = << >>
    /\ httpResponse = NoResponse
    /\ \E ringSamples \in 1..MaxRingSamples, bufferSamples \in 1..MaxRingSamples,
          bearing \in UnsetBearings, loopback \in BOOLEAN :
        /\ ringSamples >= bufferSamples
        /\ ring = AudioRingBuffer(ringSamples, bufferSamples, bearing, loopback)

\* parseData is called with a packet, with a header or without.  A memcpy
\* that went past the ring has written over whatever lies behind it: the
\* process goes on as if nothing happened, or does not go on.
RingParseData ==
    /\ pc = "Ring"
    /\ ring.alive
    /\ \E hasHeader \in BOOLEAN, bearing \in PacketBearings :
        LET r == parseData(ring, hasHeader, bearing)
        IN IF PastTheRing(r)
           THEN ring' \in {r, [r EXCEPT !.alive = FALSE]}
           ELSE ring' = r
    /\ UNCHANGED <<now, fs, timers, scheduledFor, pc, certPaths, challengeHandler,
                   selfCheckUrls, orderChallenges, selfCheck, continuationRuns, steps, errors,
                   lastInit, lastCheck, fires, edits, armLog, fireLog, httpResponse>>

\* The reader moves nextOutput, to any sample of the ring.
RingSetNextOutput ==
    /\ pc = "Ring"
    /\ ring.alive
    /\ \E newPointer \in 0..(ring.ringBufferLengthSamples - 1) :
        ring' = setNextOutput(ring, newPointer)
    /\ UNCHANGED <<now, fs, timers, scheduledFor, pc, certPaths, challengeHandler,
                   selfCheckUrls, orderChallenges, selfCheck, continuationRuns, steps, errors,
                   lastInit, lastCheck, fires, edits, armLog, fireLog, httpResponse>>

\* The reader sets started.
RingSetStarted ==
    /\ pc = "Ring"
    /\ ring.alive
    /\ \E status \in BOOLEAN : ring' = setStarted(ring, status)
    /\ UNCHANGED <<now, fs, timers, scheduledFor, pc, certPaths, challengeHandler,
                   selfCheckUrls, orderChallenges, selfCheck, continuationRuns, steps, errors,
                   lastInit, lastCheck, fires, edits, armLog, fireLog, httpResponse>>

NextRing == RingParseData \/ RingSetNextOutput \/ RingSetStarted

SpecRing == InitRing /\ [][NextRing]_vars

\* ------------------------------------------------------------- properties

Range(seq) == {seq[i] : i \in DOMAIN seq}
Count(seq, x) == Cardinality({i \in DOMAIN seq : seq[i] = x})
Last(seq) == seq[Len(seq)]

\* The steps of a generation cycle, in the order of the design: the steps
\* that may come right after a step.  A failure may end the cycle anywhere.
StepsAfter(x) ==
    CASE x = "checkExpiry" -> {"generate", "arm", "error"}
      [] x = "generate" -> {"accountKey", "error"}
      [] x = "accountKey" -> {"init"}
      [] x = "init" -> {"createAccount", "error"}
      [] x = "createAccount" -> {"order", "error"}
      [] x = "order" -> {"challenge", "selfCheck", "error"}
      [] x = "challenge" -> {"challenge", "selfCheck", "error"}
      [] x = "selfCheck" -> {"retrieve"}
      [] x = "retrieve" -> {"write", "error"}
      [] x = "write" -> {"arm", "error"}
      [] OTHER -> {}
InFlight == pc \notin {"Boot", "Idle", "Harness"}

\* C1: within one generation cycle the steps happen strictly in the order
\* account key -> authority init -> account creation -> order with challenge
\* publication -> self-check -> retrieval -> persist -> arm: every step comes
\* right after the one before it in that order, the self-check starts only
\* when every challenge of the order is published, and retrieval is requested
\* only when no self-check is unresolved.
C1_StepsInOrder ==
    /\ steps # << >> => steps[1] \in {"checkExpiry", "generate"}
    /\ \A i \in 1..(Len(steps) - 1) : steps[i + 1] \in StepsAfter(steps[i])
    /\ "selfCheck" \in Range(steps) =>
        /\ Count(steps, "challenge") = orderChallenges
        /\ Cardinality(selfCheck.pending) <= orderChallenges
    /\ "retrieve" \in Range(steps) => selfCheck.pending = {}
    /\ pc = "Retrieving" => selfCheck.pending = {}

\* C1's case: a whole cycle with two challenges, started by a timer fire.
C1_Witness ==
    /\ steps = <<"checkExpiry", "generate", "accountKey", "init", "createAccount", "order",
                 "challenge", "challenge", "selfCheck", "retrieve", "write", "arm">>
    /\ fires > 0

\* C2: for every number of self-check URLs, every combination of outcomes and
\* every order of resolution, the continuation of the self-check runs exactly
\* once, and not while a check is unresolved.
C2_ContinuationOnce ==
    "selfCheck" \in Range(steps) =>
        /\ continuationRuns <= 1
        /\ selfCheck.pending # {} => continuationRuns = 0
        /\ selfCheck.pending = {} => continuationRuns = 1
        /\ continuationRuns = Count(steps, "retrieve")

\* C2's case: two checks, one of which failed, both resolved.
C2_Witness ==
    /\ "selfCheck" \in Range(steps)
    /\ orderChallenges = 2
    /\ selfCheck.pending = {}
    /\ selfCheck.failed = {2}
    /\ continuationRuns = 1

\* C3: the renewal timer is never pending while a cycle is in flight, so a
\* timer fire cannot start a second cycle beside an unfinished one.
C3_NoTimerInFlight == InFlight => timers = {}

\* C3's case: a cycle started by a timer fire is in flight.
C3_Witness == pc = "Retrieving" /\ fires > 0 /\ timers = {}

\* A step in which init() runs: the constructor, or a timer fire.
InitStep == (pc = "Boot" /\ pc' # "Boot") \/ fires' # fires

\* C4: for every readable certificate and every value of now, checkExpiry arms
\* the timer and starts no generation iff expiry - now is positive, starts
\* generation and arms no timer iff expiry - now is not positive, and the
\* armed duration is two-thirds of expiry - now.
C4_ArmsIffPositive ==
    [][(InitStep /\ lastInit'.branch = "checkExpiry" /\ lastCheck'.read) =>
        LET left == DurSub(fs[ChainPath].data.expiry, now')
            armed == timers' # {}
            generating == "generate" \in Range(steps')
        IN /\ (armed /\ ~generating) <=> IsPos(left)
           /\ (generating /\ ~armed) <=> ~IsPos(left)
           /\ \A tm \in timers' : OfMs(tm.interval) = TruncMs(Div3(Times2(left)))]_vars

\* C5: the timer fires at now + 2/3 * (expiry - now), the instant
\* scheduleRenewalIn logs, to the millisecond the timer counts in: also after
\* the conversion to a millisecond count and to the int of QTimer::start.
C5_FiresAtRenewalInstant ==
    \A tm \in timers :
        LET early == DurSub(scheduledFor.at, FireInstant(tm))
        IN scheduledFor.set /\ ~IsNeg(early) /\ DurLess(early, OfMs(1))

\* C6: at most one renewal timer is pending, and after scheduleRenewalIn(d1)
\* then scheduleRenewalIn(d2) exactly one is, which fires once, at the instant
\* of the second call plus d2.
C6_SecondArmWins ==
    /\ Cardinality(timers) <= 1
    /\ Len(armLog) = 2 =>
        LET due == DurAdd(armLog[2].at, TruncMs(armLog[2].d))
            fired == {i \in DOMAIN fireLog : fireLog[i].arms = 2}
        IN /\ fired = {} => \E tm \in timers : timers = {tm} /\ FireInstant(tm) = due
           /\ fired # {} => timers = {} /\ Cardinality(fired) = 1
           /\ \A i \in fired : fireLog[i].at = due

\* C7: init takes the checkExpiry branch iff both certificate files exist, the
\* generateCertificate branch iff neither does and the inconsistent branch
\* otherwise, where it names the file that does not exist as missing and the
\* one that exists as the other, whichever of the two is missing.
C7_InitBranches ==
    [][InitStep =>
        LET chain == fs[ChainPath].exists
            key == fs[KeyPath].exists
        IN /\ lastInit'.branch = "checkExpiry" <=> (chain /\ key)
           /\ lastInit'.branch = "generateCertificate" <=> (~chain /\ ~key)
           /\ lastInit'.branch = "inconsistent" <=> (chain # key)
           /\ chain # key =>
               /\ lastInit'.missing \in {ChainPath, KeyPath}
               /\ lastInit'.other \in {ChainPath, KeyPath}
               /\ ~fs[lastInit'.missing].exists
               /\ fs[lastInit'.other].exists]_vars

\* C7's case: a timer fire finds the chain file, the first of the pair, gone.
C7_Witness ==
    /\ lastInit = [branch |-> "inconsistent", missing |-> ChainPath, other |-> KeyPath]
    /\ fires > 0

\* C8: when init finds exactly one of the two certificate files, at startup or
\* on a timer fire, no generation starts, no file changes and the timer is
\* not armed, then or later.
C8_InconsistentAborts ==
    [][/\ (InitStep /\ fs[ChainPath].exists # fs[KeyPath].exists) =>
            /\ fs' = fs
            /\ timers' = {}
            /\ pc' = "Idle"
            /\ "generate" \notin Range(steps')
            /\ lastInit'.branch = "inconsistent"
       /\ (~InitStep /\ lastInit.branch = "inconsistent") =>
            /\ timers' = {}
            /\ pc' = "Idle"]_vars

\* C8's case: a timer fire found only the chain file, and the client is idle
\* with no timer.
C8_Witness ==
    /\ lastInit.branch = "inconsistent"
    /\ lastInit.missing = KeyPath
    /\ fires = 1
    /\ pc = "Idle"
    /\ timers = {}
    /\ fs[ChainPath].exists

C10_WriteAllOrNothing ==
    [][("write" \in Range(steps') /\ "write" \notin Range(steps)) =>
        \/ /\ fs'[ChainPath].exists /\ fs'[KeyPath].exists
           /\ fs'[ChainPath].data.tag = "chain" /\ fs'[ChainPath].data.id = fires + 1
           /\ fs'[ChainPath].data.whole
           /\ fs'[KeyPath].data = KeyPem(fires + 1)
        \/ /\ fs'[ChainPath] = fs[ChainPath]
           /\ fs'[KeyPath] = fs[KeyPath]]_vars

\* C11: in a generation cycle that starts with no certificate files and in
\* which every step succeeds, writeCertificate is called exactly once and
\* scheduleRenewalIn exactly once, after the write, with a duration that is
\* strictly positive and is two-thirds of what the new certificate has left.
C11_OneWriteThenOneArm ==
    [][(/\ pc = "Retrieving" /\ pc' = "Idle"
        /\ lastInit.branch = "generateCertificate"
        /\ "error" \notin Range(steps')) =>
        LET duration == DurSub(scheduledFor'.at, now')
            n == Len(steps')
        IN /\ Count(steps', "write") = 1
           /\ Count(steps', "arm") = 1
           /\ SubSeq(steps', n - 1, n) = <<"write", "arm">>
           /\ scheduledFor'.set
           /\ IsPos(duration)
           /\ fs'[ChainPath].data.id = fires + 1
           /\ duration = Div3(Times2(DurSub(fs'[ChainPath].data.expiry, now')))]_vars

\* C11's case: the first cycle of a process that found no certificate file
\* went through, with one challenge, and the new certificate is on disk.
C11_Witness ==
    /\ steps = <<"generate", "accountKey", "init", "createAccount", "order", "challenge",
                 "selfCheck", "retrieve", "write", "arm">>
    /\ lastInit.branch = "generateCertificate"
    /\ fires = 0
    /\ fs[ChainPath].exists /\ fs[ChainPath].data.id = 1
    /\ scheduledFor.set /\ IsPos(DurSub(scheduledFor.at, now))

\* C12: when both certificate files exist and the certificate has expired,
\* init goes straight to generation and arms no timer, and no step of that
\* cycle changes either certificate file before the authority has returned
\* the signed certificate.
C12_ExpiredGeneratesKeepingFiles ==
    [][/\ (/\ InitStep
           /\ fs[ChainPath].exists /\ fs[KeyPath].exists
           /\ lastCheck'.read
           /\ ~IsPos(DurSub(fs[ChainPath].data.expiry, now'))) =>
            /\ timers' = {}
            /\ Len(steps') >= 2 /\ SubSeq(steps', 1, 2) = <<"checkExpiry", "generate">>
            /\ "arm" \notin Range(steps')
       /\ (/\ steps' # << >> /\ steps'[1] = "checkExpiry"
           /\ "generate" \in Range(steps')
           /\ "write" \notin Range(steps')) =>
            /\ fs'[ChainPath] = fs[ChainPath]
            /\ fs'[KeyPath] = fs[KeyPath]]_vars

\* C12's case: the cycle that an expired certificate started waits for the
\* signed certificate, and the expired one is still on disk.
C12_Witness ==
    /\ pc = "Retrieving"
    /\ steps[1] = "checkExpiry"
    /\ lastCheck.read /\ IsNeg(lastCheck.left)
    /\ fs[ChainPath].exists /\ fs[ChainPath].data.id = 0
    /\ fs[KeyPath] = Holding(KeyPem(0))

\* C13: each timer fire runs init on the certificate files as they are when
\* it fires: when they hold a readable certificate with validity left, no
\* generation starts and the timer is armed again, for two-thirds of what
\* that certificate has left; when neither file exists, generation starts.
C13_FireDecidesOnFilesAtFire ==
    [][(fires' # fires) =>
        /\ (/\ fs[ChainPath].exists /\ fs[KeyPath].exists
            /\ lastCheck'.read
            /\ IsPos(DurSub(fs[ChainPath].data.expiry, now'))) =>
             LET left == DurSub(fs[ChainPath].data.expiry, now')
             IN /\ "generate" \notin Range(steps')
                /\ timers' # {}
                /\ \A tm \in timers' :
                     /\ tm.armedAt = now'
                     /\ OfMs(tm.interval) = TruncMs(Div3(Times2(left)))
        /\ (~fs[ChainPath].exists /\ ~fs[KeyPath].exists) =>
             "generate" \in Range(steps')]_vars

\* C14: whatever challenges were added and whatever path is asked for, a path
\* that is the location of a published challenge is answered 200 with the
\* content published for that location (the first, were a location added
\* twice) as application/octet-stream, and any other path is answered 404
\* with a text that lists the location of every challenge published.
C14_ServesPublishedChallenges ==
    httpResponse # NoResponse =>
        LET challenges == challengeHandler.challenges
            published == {i \in DOMAIN challenges :
                            QUrlToString(challenges[i].url) = httpResponse.url}
        IN /\ published # {} =>
               /\ httpResponse.status = 200
               /\ httpResponse.contentType = "application/octet-stream"
               /\ \E i \in published :
                    /\ httpResponse.body = challenges[i].content
                    /\ \A j \in published : i <= j
           /\ published = {} =>
               /\ httpResponse.status = 404
               /\ Len(httpResponse.body) = 3 + 2 * Len(challenges)
               /\ httpResponse.body[2] = httpResponse.url
               /\ \A i \in DOMAIN challenges :
                    httpResponse.body[3 + 2 * i - 1] = QUrlToString(challenges[i].url)

\* C14's case: tokenA and tokenB are published and tokenC is asked for.
C14_Witness ==
    /\ Len(challengeHandler.challenges) = 2
    /\ {QUrlToString(challengeHandler.challenges[i].url) : i \in 1..2} = {"tokenA", "tokenB"}
    /\ httpResponse.url = "tokenC"
    /\ httpResponse.status = 404
    /\ {"tokenA", "tokenB"} \subseteq Range(httpResponse.body)

\* C15: whenever a cycle has ended, in success or in a failure at any step
\* after the challenge handler was made, and the client is idle, no challenge
\* handler exists and no challenge is served.
C15_NoHandlerWhenIdle ==
    pc = "Idle" =>
        /\ ~challengeHandler.alive
        /\ challengeHandler.challenges = << >>

\* C16: at most one AcmeHttpChallengeServer exists: whenever generateCertificate
\* makes one, none made before is still alive, and so the one made is the only
\* one.
C16_OneHandlerAtATime ==
    [][(pc = "CreatingAccount" /\ pc' = "Ordering") =>
        /\ ~challengeHandler.alive
        /\ challengeHandler' = [alive |-> TRUE, challenges |-> << >>]]_vars

\* C16's case: the second cycle of a process, whose first cycle created the
\* account key and made and dropped a handler, has made its handler.
C16_Witness ==
    /\ pc = "Ordering"
    /\ fires > 0
    /\ fs[AccountKeyPath] = Holding(AccountPem(1))
    /\ challengeHandler.alive

\* C17: the URLs handed to the self-check are one "http://" + domain +
\* location per challenge published in this order, in the order of
\* publication, and nothing else; the member selfCheckUrls is empty once they
\* are handed over.
C17_SelfCheckUrlsOfThisOrder ==
    [][("selfCheck" \in Range(steps') /\ "selfCheck" \notin Range(steps)) =>
        LET challenges == challengeHandler.challenges
        IN /\ Len(selfCheck'.urls) = Len(challenges)
           /\ \A i \in DOMAIN challenges :
                selfCheck'.urls[i] = <<"http://", i, QUrlToString(challenges[i].url)>>
           /\ selfCheck'.pending \cup selfCheck'.failed \subseteq DOMAIN challenges
           /\ selfCheckUrls' = << >>]_vars

\* C17's case: the order of a second cycle published tokenB then tokenA, and
\* its self-check waits for both URLs.
C17_Witness ==
    /\ pc = "SelfChecking"
    /\ fires > 0
    /\ selfCheck.urls = <<SelfCheckUrl(1, "tokenB"), SelfCheckUrl(2, "tokenA")>>
    /\ selfCheck.pending = {1, 2}
    /\ selfCheckUrls = << >>

\* C18: the account key is created once and never rotated: the account key
\* file changes only in generateCertificate, when it does not exist, and then
\* comes to exist; a run of init that only evaluates the expiry and arms the
\* timer neither creates nor reads it.
C18_AccountKeyCreatedOnce ==
    [][/\ fs'[AccountKeyPath] # fs[AccountKeyPath] =>
            /\ ~fs[AccountKeyPath].exists
            /\ fs'[AccountKeyPath] = Holding(AccountPem(fires' + 1))
            /\ InitStep
            /\ "generate" \in Range(steps')
       /\ (InitStep /\ "generate" \notin Range(steps')) =>
            /\ fs'[AccountKeyPath] = fs[AccountKeyPath]
            /\ "accountKey" \notin Range(steps')]_vars

\* C18's case: the second cycle of a process runs on the account key that
\* its first cycle created.
C18_Witness ==
    /\ fires > 0
    /\ "accountKey" \in Range(steps)
    /\ pc = "Retrieving"
    /\ fs[AccountKeyPath] = Holding(AccountPem(1))

\* C19: when both certificate files exist and the chain or the key read is
\* empty, the file being empty or failing to open, checkExpiry logs an error
\* and returns: it evaluates no expiry, arms no timer, starts no generation
\* and leaves the files as they are.
C19_EmptyReadAborts ==
    [][(/\ InitStep
        /\ fs[ChainPath].exists /\ fs[KeyPath].exists
        /\ \/ IsEmpty(fs[ChainPath].data) \/ ~lastCheck'.chainOpen
           \/ IsEmpty(fs[KeyPath].data) \/ ~lastCheck'.keyOpen) =>
        /\ errors' = errors + 1
        /\ ~lastCheck'.read /\ lastCheck'.left = Zero /\ lastCheck'.remaining = Zero
        /\ timers' = {}
        /\ scheduledFor' = scheduledFor
        /\ steps' = <<"checkExpiry", "error">>
        /\ pc' = "Idle"
        /\ fs' = fs]_vars

\* C19's case: a timer fire found both files in place, with content, and the
\* key file could not be opened.
C19_Witness ==
    /\ fires > 0
    /\ steps = <<"checkExpiry", "error">>
    /\ lastCheck.chainOpen /\ ~lastCheck.keyOpen
    /\ fs[ChainPath].exists /\ ~IsEmpty(fs[ChainPath].data)
    /\ fs[KeyPath].exists /\ ~IsEmpty(fs[KeyPath].data)
    /\ pc = "Idle" /\ timers = {}

\* C20: after a cycle has ended in a failure, at whichever step, the client
\* is idle with no renewal timer pending, so that no timer fire can enter
\* init again and start another cycle.
C20_NoRetryAfterFailure ==
    (steps # << >> /\ Last(steps) = "error") =>
        /\ pc = "Idle"
        /\ timers = {}
        /\ ~ENABLED TimerFire

\* C20's case: the cycle that a timer fire started failed in the order, and
\* nothing is pending.
C20_Witness ==
    /\ fires > 0
    /\ "order" \in Range(steps)
    /\ "selfCheck" \notin Range(steps)
    /\ Last(steps) = "error"
    /\ pc = "Idle"
    /\ timers = {}

\* C21: for every ring with ringSamples >= bufferSamples > 0, and however the
\* reader moves nextOutput inside the ring between the calls, each parseData
\* copies its samples inside the ring, and afterwards endOfLastWrite points
\* into the ring.
C21_CopyInsideRing ==
    (ring # NoRing /\ ring.endOfLastWrite # NULL) =>
        /\ 0 <= ring.copied.from
        /\ ring.copied.to <= ring.ringBufferLengthSamples
        /\ 0 <= ring.endOfLastWrite
        /\ ring.endOfLastWrite < ring.ringBufferLengthSamples

\* C22: parseData never writes over samples that were written and not yet
\* read without notice: when its copy covered unread samples, it had reset
\* endOfLastWrite and nextOutput to the start of the buffer and set started
\* to false, so that the copy went to the start of the buffer.
C22_NoSilentOverwrite ==
    (ring # NoRing /\ ring.overwrote) =>
        /\ ring.wasReset
        /\ ring.copied.from = 0

====
